---- MODULE Spec2Model ----
(***************************************************************************)
(* A state-machine model of galpy's actionAngleSphericalInverse            *)
(* (src/galpy/actionAngle/actionAngleSphericalInverse.py).                 *)
(*                                                                         *)
(* Numbers are fixed point.  Radii are integers in units of the 1e-8       *)
(* offset the code keeps from the turning points (Eps), angles are         *)
(* integers with TwoPi units to the circle, polynomial coefficients are    *)
(* integers in units of 1/CoefScale, and a float NaN is the value NaN.     *)
(* What the external collaborators return (the forward action-angle        *)
(* solver, the isochrone helper, the potential) is chosen from small sets  *)
(* when the code calls them.                                               *)
(***************************************************************************)
EXTENDS Integers, Sequences, FiniteSets, TLC

\* ------------------------------------------------------------------ bounds
MaxNta == 6           \* largest nta given to the constructor
MaxMaxiter == 1       \* the maxiter given to the constructor

\* --------------------------------------------------------------- constants
TwoPi == 120          \* 2.0 * numpy.pi, in angle units
Eps == 1              \* the 1e-8 offset from the turning points
AngleTol == 0         \* angle_tol = 1e-12, below the angle resolution
JrFloor == 1          \* the 1e-10 floor on jr for the point transformation
LookupTol == 0        \* the 1e-10 tolerance of the torus lookup
DSnFloor == 2         \* the 1e-15 floor under which dSndJr counts as noise
CoefScale == 10       \* polynomial coefficients are stored in tenths
WeirdCoef == 3        \* the 0.3 of the fixed test point transformation
MaxdarDiv == 101      \* maxdar = 2 pi / 101

Pi == TwoPi \div 2
NaN == 0 - 1000000    \* stands for a floating-point NaN

NtaSet == (MaxNta - 2)..MaxNta
MaxiterSet == {MaxMaxiter}
PtModes == {<<FALSE, 4>>, <<TRUE, 1>>, <<TRUE, 4>>}   \* use_pointtransform, pt_deg
GridSet == {<<1, 2>>, <<2, 1>>}             \* grids a caller may ask for: <<nE, nL>>
EsChoices == {<<1>>, <<2, 1>>}              \* lists a caller may pass as Es
LsChoices == {<<1>>, <<1, 2>>}              \* lists a caller may pass as Ls
\* what the forward solver (actionsFreqs, EccZmaxRperiRap) may return for one
\* (E, L): a circular orbit has jr = 0 and rperi = rap
OrbitSet == {[jr |-> 0, rperi |-> 20, rap |-> 20],
             [jr |-> 5, rperi |-> 20, rap |-> 80]}
FreqSet == {[Omegar |-> 4, Omegaz |-> 3],      \* Omegar / 2 < Omegaz < Omegar
            [Omegar |-> 4, Omegaz |-> 5],      \* Omegaz > Omegar
            [Omegar |-> 8, Omegaz |-> 3]}      \* Omegaz < Omegar / 2
\* 2 (E - Phi(rl)) - L^2 / rl^2 at the circular radius rl of L, for E below,
\* at and above the energy of the circular orbit
Vr2Set == {0 - 4, 0, 4}
PtShiftSet == {0 - 12, 0, 12} \* pt_rap - rap the isochrone helper returns
FitSet == {<<0>>, <<2>>}      \* free coefficients optimize.leastsq returns
NumericsSet == {"exact", "coarse"}
\* first harmonic of dSn/dJr as the FFT gives it, in 1/30 angle units: zero,
\* numerical noise below DSnFloor, and a real coefficient
SeriesSet == {0, 1, 6}
\* what a caller may pass to evaluate / frequencies: <<jr, jphi, jz>>, angler
QuerySet == {<<0, 1, 0>>, <<5, 1, 0>>, <<5, 0 - 1, 1>>, <<5, 2, 1>>, <<6, 1, 0>>}
AnglerChoices == {<<0>>, <<5>>, <<5, 20>>, <<5 + TwoPi>>}
Threads == {1, 2}

\* ------------------------------------------------------------------- state
VARIABLES
    pc,                 \* position of the constructor / life of the engine
    err,                \* exception that ended the constructor ("none" if none)
    warnings,           \* galpyWarnings emitted so far, in order
    pot, Es, Ls,        \* constructor arguments
    use_pointtransform, pt_deg, nta, maxiter, bisect,
    setup_interp, grid, \* constructor arguments setup_interp and <<nE, nL>>
    internal_Es, internal_Ls,            \* self._internal_Es, self._internal_Ls
    jr, Omegar, Omegaz, rperi, rap,      \* one entry per torus
    numerics,                            \* per torus: how _anglera behaves
    vrls,               \* local of __init__: radial velocity at the circular radius
    pt_rperi, pt_rap, pt_coeffs, pt_deriv_coeffs, pt_deriv2_coeffs,
    fit,                \* per torus: what optimize.leastsq returned, <<>> if not run
    rgrid,              \* rgrid[i][k]: radius of torus i at thetaa[k]
    ta,                 \* ta[i][k]: auxiliary angle last computed at rgrid[i][k]
    unconv,             \* the nodes <<i, k>> whose unconv flag is True
    cntr,               \* iteration counter of the running loop
    tryr_min,           \* bisection: lower bound of every active node
    dr,                 \* bisection: current step, per torus
    iters,              \* loop bodies executed: [newton |-> n, bisect |-> m]
    written,            \* nodes the Newton or bisection loop has assigned to
    dSndJr,             \* per torus: self._dSndJr
    frame,              \* per thread: the locals of its _xvFreqs / _Freqs call
    single,             \* an actionAngleSphericalInverseSingle and its constructor
    profile             \* a galpy_profile (galpy/potential/amuse.py)

cfgvars == <<pot, Es, Ls, use_pointtransform, pt_deg, nta, maxiter, bisect, setup_interp, grid>>
torusvars == <<internal_Es, internal_Ls, jr, Omegar, Omegaz, rperi, rap, numerics, vrls>>
ptvars == <<pt_rperi, pt_rap, pt_coeffs, pt_deriv_coeffs, pt_deriv2_coeffs, fit>>
gridvars == <<rgrid, ta, unconv, cntr, tryr_min, dr, iters, written>>
\* everything the engine stores about its tori
stored == <<internal_Es, internal_Ls, Ls, jr, Omegar, Omegaz, rperi, rap,
            pt_rperi, pt_rap, pt_coeffs, pt_deriv_coeffs, pt_deriv2_coeffs,
            rgrid, dSndJr>>
\* the objects of the other classes
others == <<single, profile>>
vars == <<pc, err, warnings, cfgvars, torusvars, ptvars, gridvars, dSndJr, frame, others>>

\* ----------------------------------------------------------------- helpers
Abs(x) == IF x < 0 THEN 0 - x ELSE x
Sign(x) == IF x < 0 THEN 0 - 1 ELSE IF x > 0 THEN 1 ELSE 0
Tori == 1..Len(internal_Es)
SeqOf(S, n) == [1..n -> S]

RECURSIVE SumSeq(_)
SumSeq(s) == IF s = <<>> THEN 0 ELSE Head(s) + SumSeq(Tail(s))

\* numpy.polynomial.polynomial.polyder(c, m=1): c[n] * n for n >= 1
polyder(c) == [n \in 1..(Len(c) - 1) |-> n * c[n + 1]]

\* polynomial.polyval at x = 0 and x = 1 (coefficients in 1/CoefScale)
polyval0(c) == IF c = <<>> THEN 0 ELSE c[1]
polyval1(c) == SumSeq(c)

\* a thread that is not inside a call and holds no result
Idle == [st |-> "idle"]

\* ------------------------------------------------------------------ Init
InitArgs ==
    /\ pc = "new"
    /\ err = "none"
    /\ warnings = <<>>
    /\ pot \in {"None", "pot"}
    /\ Es \in EsChoices
    /\ Ls \in LsChoices
    /\ \E m \in PtModes : use_pointtransform = m[1] /\ pt_deg = m[2]
    /\ nta \in NtaSet
    /\ maxiter \in MaxiterSet
    /\ bisect \in BOOLEAN
    /\ internal_Es = <<>> /\ internal_Ls = <<>>
    /\ jr = <<>> /\ Omegar = <<>> /\ Omegaz = <<>> /\ rperi = <<>> /\ rap = <<>>
    /\ numerics = <<>> /\ vrls = <<>>
    /\ pt_rperi = <<>> /\ pt_rap = <<>> /\ pt_coeffs = <<>>
    /\ pt_deriv_coeffs = <<>> /\ pt_deriv2_coeffs = <<>> /\ fit = <<>>
    /\ rgrid = <<>> /\ ta = <<>> /\ unconv = {} /\ cntr = 0
    /\ tryr_min = <<>> /\ dr = <<>>
    /\ iters = [newton |-> 0, bisect |-> 0] /\ written = {}
    /\ dSndJr = <<>>
    /\ frame = [t \in Threads |-> Idle]

\* no single-torus engine and no AMUSE profile has been asked for
NoSingle == [pc |-> "none"]
NoProfile == [st |-> "none"]

\* an engine for the (E, L) pairs of Es and Ls; nE and nL are not read
Init == InitArgs /\ setup_interp = FALSE /\ grid = <<1, 1>>
        /\ single = NoSingle /\ profile = NoProfile

\* an engine for an nE x nL grid of tori; Es and Ls are not read
InitGrid == InitArgs /\ setup_interp = TRUE /\ grid \in GridSet
            /\ Es = <<2, 1>> /\ Ls = <<1, 2>>
            /\ single = NoSingle /\ profile = NoProfile

\* lines 121-122 and 131-132: self._nE and self._nL
nE == IF setup_interp THEN grid[1] ELSE Len(Es)
nL == IF setup_interp THEN grid[2] ELSE Len(Ls)

\* lines 114-116 and 154-159: the grid, flattened with E running fastest; the
\* angular momenta are 1..nL and the energies of one L run from the energy of
\* its circular orbit upwards
grid_Ls == [i \in 1..(nE * nL) |-> ((i - 1) \div nE) + 1]
grid_Es == [i \in 1..(nE * nL) |-> ((i - 1) \div nE) + 1 + ((i - 1) % nE)]

Raise(e) == pc' = "failed" /\ err' = e

\* CheckArgs without the comparison of len(Es) and len(Ls)
CheckArgs_nolen ==
    /\ pc = "new"
    /\ IF pot = "None"
         THEN Raise("OSError") /\ UNCHANGED <<internal_Es, internal_Ls>>
       ELSE /\ pc' = "actions" /\ err' = err
            /\ internal_Es' = Es
            /\ internal_Ls' = Ls
    /\ UNCHANGED <<warnings, cfgvars, others, jr, Omegar, Omegaz, rperi, rap, numerics, vrls, ptvars, gridvars,
                   dSndJr, frame>>

\* __init__, lines 115-128: the argument checks and the copy of Es / Ls
CheckArgs ==
    /\ pc = "new"
    /\ IF pot = "None"
         THEN Raise("OSError") /\ UNCHANGED <<internal_Es, internal_Ls>>
       ELSE IF ~setup_interp /\ nE # nL
         THEN Raise("ValueError") /\ UNCHANGED <<internal_Es, internal_Ls>>
       ELSE /\ pc' = "actions" /\ err' = err
            /\ internal_Es' = IF setup_interp THEN grid_Es ELSE Es
            /\ internal_Ls' = IF setup_interp THEN grid_Ls ELSE Ls
    /\ UNCHANGED <<warnings, cfgvars, others, jr, Omegar, Omegaz, rperi, rap, numerics, vrls, ptvars, gridvars,
                   dSndJr, frame>>

\* numpy.sqrt on the fixed-point grid: NaN for a negative argument
Sqrt(x) == IF x < 0 THEN NaN
           ELSE CHOOSE r \in 0..x : r * r <= x /\ (r + 1) * (r + 1) > x

\* lines 182-191: vrls = sqrt(2 (E - Phi(rl)) - L^2 / rl^2), taken as it is;
\* "if setup_interp: vrls[:: self._nE] = 0.0"
vrls_of(i, vr2) == IF setup_interp /\ (i - 1) % nE = 0 THEN 0 ELSE Sqrt(vr2)

\* __init__, lines 170-206: the forward solver gives jr, the frequencies and
\* the turning points of every (E, L); a circular orbit (jr = 0) has rperi = rap
ComputeActions ==
    /\ pc = "actions"
    /\ \E o \in SeqOf(OrbitSet, Len(internal_Es)),
          f \in SeqOf(FreqSet, Len(internal_Es)),
          nu \in SeqOf(NumericsSet, Len(internal_Es)),
          vr2 \in SeqOf(Vr2Set, Len(internal_Es)) :
         /\ \A i \in Tori : o[i].rperi = o[i].rap => nu[i] = "exact"
         \* a start at rest at the circular radius is a circular orbit, a start
         \* with a radial velocity an eccentric one; E below the circular
         \* energy leaves the solver a NaN velocity
         /\ \A i \in Tori : /\ vrls_of(i, vr2[i]) = 0 => o[i].rperi = o[i].rap
                            /\ vrls_of(i, vr2[i]) > 0 => o[i].rperi < o[i].rap
         /\ vrls' = [i \in Tori |-> vrls_of(i, vr2[i])]
         /\ jr' = [i \in Tori |-> o[i].jr]
         /\ rperi' = [i \in Tori |-> o[i].rperi]
         /\ rap' = [i \in Tori |-> o[i].rap]
         /\ Omegar' = [i \in Tori |-> f[i].Omegar]
         /\ Omegaz' = [i \in Tori |-> f[i].Omegaz]
         /\ numerics' = nu
    /\ pc' = "isochrone"
    /\ UNCHANGED <<err, warnings, cfgvars, others, internal_Es, internal_Ls, ptvars, gridvars, dSndJr, frame>>

\* lines 209-214: ampb = L2 * Omegaz * (Omegar - Omegaz) / (2 Omegaz - Omegar)^2,
\* as the pair numerator, denominator
ampbNum(i) == internal_Ls[i] * internal_Ls[i] * Omegaz[i] * (Omegar[i] - Omegaz[i])
ampbDen(i) == (2 * Omegaz[i] - Omegar[i]) * (2 * Omegaz[i] - Omegar[i])
\* ampb < 0.0 in floating point: x / 0.0 is +-inf or NaN, and NaN < 0 is False
\* a zero denominator gives -inf only under a negative numerator
ampbNegative(i) == IF ampbDen(i) = 0 THEN ampbNum(i) < 0
                   ELSE ampbNum(i) * ampbDen(i) < 0

\* __init__, lines 207-235: match an isochrone to every torus
MatchIsochrone ==
    /\ pc = "isochrone"
    /\ IF \E i \in Tori : ampbNegative(i)
         THEN Raise("NotImplementedError")
         ELSE pc' = "pointtransform" /\ err' = err
    /\ UNCHANGED <<warnings, cfgvars, others, torusvars, ptvars, gridvars, dSndJr, frame>>

\* a polynomial of degree deg with every coefficient 0 but the linear one
Linear(deg) == [n \in 1..(deg + 1) |-> IF n = 2 THEN CoefScale ELSE 0]
Const(len, c) == [n \in 1..len |-> c]

\* lines 480-486: the start of the fit, the identity for the first torus and
\* coeffs[2::] / coeffs[1] of the previous torus' full vector after it
start_coeffs(ii, deg) == IF ii = 1 THEN Const(deg - 3, 0) ELSE Const(deg - 1, 0)

\* opt_func, line 442: ccoeffs[4::] = coeffs raises ValueError unless coeffs
\* has as many entries as the slice or exactly one
opt_func_raises(coeffs, deg) == Len(coeffs) # deg - 3 /\ Len(coeffs) # 1

\* a set-up that fits every torus, whatever its radial action
UsesIdentity_never(ii) == FALSE

\* _setup_pointtransform, lines 399-408 and 480-521, for torus ii
UsesIdentity(ii) == jr[ii] < JrFloor

\* lines 374-376 and 399: the tables of _setup_pointtransform have self._nE
\* rows and its loop is "for ii in range(self._nE)"
Rows == 1..nE

\* __init__ lines 236-262 and _setup_pointtransform, lines 369-523
SetupPointTransform ==
    /\ pc = "pointtransform"
    /\ IF use_pointtransform /\ pt_deg > 1
         THEN IF \E ii \in Rows : ~UsesIdentity(ii)
                                   /\ opt_func_raises(start_coeffs(ii, pt_deg), pt_deg)
                THEN Raise("ValueError") /\ UNCHANGED ptvars
                ELSE \E shift \in SeqOf(PtShiftSet, Len(internal_Es)),
                        lsq \in SeqOf(FitSet, Len(internal_Es)) :
                       /\ \A ii \in Rows : UsesIdentity(ii) =>
                                              shift[ii] = 0 /\ lsq[ii] = <<0>>
                       \* a torus the loop does not reach keeps what the
                       \* isochrone helper returned for it and is never fitted
                       /\ \A ii \in Tori \ Rows : shift[ii] >= 0 /\ lsq[ii] = <<0>>
                       /\ pc' = "prescan" /\ err' = err
                       /\ fit' = [ii \in Rows |->
                                    IF UsesIdentity(ii) THEN <<>> ELSE lsq[ii]]
                       /\ pt_rperi' = rperi
                       /\ pt_rap' = [ii \in Tori |-> rap[ii] + shift[ii]]
                       \* "FIXING PT TO LINEAR": the fit result is dropped
                       /\ pt_coeffs' = [ii \in Rows |-> Linear(pt_deg)]
                       /\ pt_deriv_coeffs' = [ii \in Rows |->
                              IF UsesIdentity(ii) THEN Const(pt_deg, CoefScale)
                              ELSE polyder(Linear(pt_deg))]
                       /\ pt_deriv2_coeffs' = [ii \in Rows |->
                              IF UsesIdentity(ii) THEN Const(pt_deg - 1, 0)
                              ELSE polyder(polyder(Linear(pt_deg)))]
         ELSE /\ pc' = "prescan" /\ err' = err
              /\ fit' = [ii \in Tori |-> <<>>]
              /\ pt_rperi' = rperi
              /\ pt_rap' = rap
              /\ pt_coeffs' = [ii \in Tori |->
                     <<0, CoefScale + WeirdCoef, 0, 0 - WeirdCoef>>]
              /\ pt_deriv_coeffs' = [ii \in Tori |->
                     <<CoefScale + WeirdCoef, 0, 3 * (0 - WeirdCoef)>>]
              /\ pt_deriv2_coeffs' = [ii \in Tori |-> <<0, 6 * (0 - WeirdCoef)>>]
    /\ UNCHANGED <<warnings, cfgvars, others, torusvars, gridvars, dSndJr, frame>>

\* ------------------------------------------------------------ _create_rgrid
Min(a, b) == IF a < b THEN a ELSE b
Max(a, b) == IF a > b THEN a ELSE b
\* a / b in floating point, rounded to the fixed-point grid (b > 0)
DivRound(a, b) == IF a >= 0 THEN (2 * a + b) \div (2 * b)
                  ELSE 0 - ((2 * (0 - a) + b) \div (2 * b))

\* line 265: self._thetaa = linspace(0, 2 pi (1 - 1/nta), nta)
thetaa(k) == (k * TwoPi) \div nta
\* (x + pi) % (2 pi) - pi, the 2pi-wrapped residual
Wrap(x) == ((x + Pi) % TwoPi) - Pi
\* numpy.fabs(dta) > self._angle_tol; False for NaN
NotWithinTol(dta) == dta # NaN /\ Abs(dta) > AngleTol

Half == nta \div 2                    \* self._nta // 2
Nodes == 0..(nta - 1)
PreScan == 0..(2 * nta - 1)

\* _anglera, lines 1856-1906: the auxiliary angle at auxiliary radius ra.  The
\* normalised coordinate (ra - ptrperi) / (ptrap - ptrperi) is a division by
\* zero for a circular orbit, which makes the result NaN; outside the turning
\* points the radicand is clamped to zero; a "coarse" torus resolves the angle
\* only to 8 units
anglera(i, ra) ==
    IF pt_rap[i] = pt_rperi[i] THEN NaN
    ELSE LET w == pt_rap[i] - pt_rperi[i]
             lin == Max(0, Min(Pi, (Pi * (ra - pt_rperi[i])) \div w))
         IN IF numerics[i] = "exact" THEN lin ELSE (lin \div 8) * 8

\* _danglera, lines 1909-1976: d anglera / d ra as the pair <<num, den>>
danglera(i, ra) == <<Pi, pt_rap[i] - pt_rperi[i]>>

\* lines 531-535: the 2 nta trial radii of the pre-scan
rs(i, j) == (j * (pt_rap[i] - pt_rperi[i] - 2 * Eps)) \div (2 * nta - 1)
            + pt_rperi[i] + Eps
\* lines 543-561: their angles, NaN replaced by 0
rta(i, j) == LET a == anglera(i, rs(i, j)) IN IF a = NaN THEN 0 ELSE a

\* lines 563-570: index of the pre-scan angle nearest to thetaa[k]
\* (numpy.nanargmin returns the first index of the minimum)
cindx(i, k) ==
    LET d(j) == Abs(Wrap(rta(i, j) - thetaa(k)))
    IN CHOOSE j \in PreScan :
         /\ \A m \in PreScan : d(j) <= d(m)
         /\ \A m \in PreScan : m < j => d(m) > d(j)

\* lines 571-574 alone: every node keeps its pre-scan guess, the assignments
\* of lines 579-580 left out
initial_rgrid_nofix(i, k) ==
    (cindx(i, k) * (rap[i] - rperi[i] - 2 * Eps)) \div (2 * nta - 1)
    + rperi[i] + Eps

\* lines 571-580: the initial radius of node k of torus i
initial_rgrid(i, k) ==
    IF k = Half THEN pt_rap[i]
    ELSE IF k = 0 THEN pt_rperi[i]
    ELSE (cindx(i, k) * (rap[i] - rperi[i] - 2 * Eps)) \div (2 * nta - 1)
         + rperi[i] + Eps

\* only the pericentre column cleared: unconv[:, 0] = False alone
Solved_norap == {k \in Nodes : k # 0 /\ k <= Half}

\* lines 614-618: nodes that start with unconv = True
Solved == {k \in Nodes : k # 0 /\ k < Half}

\* lines 622-624: largest Newton step
maxdr(i) == (rap[i] - rperi[i]) \div nta

\* a solve that always starts with the Newton-Raphson loop
FirstPhase_newton == "newton"

\* lines 628 and 1390: "while not self._bisect" skips the Newton-Raphson loop
FirstPhase == IF bisect THEN "bisect_start" ELSE "newton"

\* _create_rgrid, lines 531-627: pre-scan, initial guess, first convergence test
CreateRgrid ==
    /\ pc = "prescan"
    /\ LET rg == [i \in Tori |-> [k \in Nodes |-> initial_rgrid(i, k)]]
           tas == [i \in Tori |-> [k \in Nodes |-> anglera(i, rg[i][k])]]
       IN /\ rgrid' = rg
          /\ ta' = tas
          /\ unconv' = {n \in Tori \X Solved :
                          NotWithinTol(IF tas[n[1]][n[2]] = NaN THEN NaN
                                       ELSE Wrap(tas[n[1]][n[2]] - thetaa(n[2])))}
    /\ cntr' = 0
    /\ pc' = FirstPhase
    /\ UNCHANGED <<err, warnings, cfgvars, others, torusvars, ptvars, tryr_min, dr, iters, written,
                   dSndJr, frame>>

\* a Newton step taken at full length, without the cap of lines 646-648
newton_dr_nolimit(i, k) ==
    LET dta == Wrap(ta[i][k] - thetaa(k))
        d == danglera(i, rgrid[i][k])
    IN DivRound((0 - dta) * d[2], d[1])

\* lines 644-648: the Newton step of an active node, clamped to maxdr
newton_dr(i, k) ==
    LET dta == Wrap(ta[i][k] - thetaa(k))
        d == danglera(i, rgrid[i][k])
        raw == DivRound((0 - dta) * d[2], d[1])
    IN IF Abs(raw) > maxdr(i) THEN Sign(raw) * maxdr(i) ELSE raw

Warn(w) == warnings' = Append(warnings, w)

\* a loop that warns whenever the counter passed maxiter
NewtonGivesUp_always(still, c) == c > maxiter

\* lines 674-676 and 1412-1414: the loop first breaks on an empty active set
\* and only then tests the counter, so it warns with nodes left active
NewtonGivesUp(still, c) == still # {} /\ c > maxiter

\* lines 591 and 629-637: ptcoeffsgrid has one row per row of self._pt_coeffs
\* and is indexed with the mask unconv, which has one row per torus; a mask of
\* another shape is an IndexError
MaskFits == Len(pt_coeffs) = Len(internal_Es)

\* lines 629-675: the body of the Newton-Raphson loop
NewtonPass ==
    /\ LET rg == [i \in Tori |-> [k \in Nodes |->
                    IF <<i, k>> \in unconv
                      THEN Max(rperi[i], Min(rap[i], rgrid[i][k] + newton_dr(i, k)))
                      ELSE rgrid[i][k]]]
           \* line 654: the test uses dta of line 644, computed before the step
           still == {n \in unconv : NotWithinTol(Wrap(ta[n[1]][n[2]] - thetaa(n[2])))}
       IN /\ rgrid' = rg
          /\ unconv' = still
          /\ ta' = [i \in Tori |-> [k \in Nodes |->
                      IF <<i, k>> \in still THEN anglera(i, rg[i][k]) ELSE ta[i][k]]]
          /\ written' = written \cup unconv
          /\ cntr' = cntr + 1
          /\ iters' = [iters EXCEPT !.newton = @ + 1]
          /\ IF NewtonGivesUp(still, cntr + 1)
               THEN Warn([kind |-> "newton", maxiter |-> maxiter, Es |-> <<>>])
               ELSE UNCHANGED warnings
          \* line 684: the bisection block is entered whenever cntr > maxiter
          /\ pc' = IF cntr + 1 > maxiter THEN "bisect_start"
                   ELSE IF still = {} THEN "reflect" ELSE "newton"
    /\ UNCHANGED <<err, tryr_min, dr>>

\* _create_rgrid, lines 628-683: one pass of the Newton-Raphson loop
NewtonIter ==
    /\ pc = "newton"
    /\ IF MaskFits THEN NewtonPass
       ELSE Raise("IndexError") /\ UNCHANGED <<warnings, gridvars>>
    /\ UNCHANGED <<cfgvars, others, torusvars, ptvars, dSndJr, frame>>

\* lines 689-693: index of the pre-scan angle nearest to thetaa[k] from below
cindx_below(i, k) ==
    LET da(j) == Wrap(rta(i, j) - thetaa(k))
        big == CHOOSE b \in {Abs(da(j)) : j \in PreScan} :
                  \A j \in PreScan : Abs(da(j)) <= b
        low(j) == IF da(j) >= 0 THEN 0 - big - 1 ELSE da(j)
    IN CHOOSE j \in PreScan :
         /\ \A m \in PreScan : low(j) >= low(m)
         /\ \A m \in PreScan : m < j => low(m) < low(j)

\* _create_rgrid, lines 684-701: set up the bisection
BisectStart ==
    /\ pc = "bisect_start"
    /\ cntr' = 0
    /\ tryr_min' = [n \in unconv |->
          (cindx_below(n[1], n[2]) * (pt_rap[n[1]] - pt_rperi[n[1]] - 2 * Eps))
              \div (2 * nta - 1) + pt_rperi[n[1]] + Eps]
    /\ dr' = [i \in Tori |-> (2 * (pt_rap[i] - pt_rperi[i])) \div (2 * nta - 1)]
    /\ pc' = "bisect"
    /\ UNCHANGED <<err, warnings, cfgvars, others, torusvars, ptvars, rgrid, ta, unconv,
                   iters, written, dSndJr, frame>>

RECURSIVE SortedSeq(_)
\* sorted(set(...)) of a set of numbers
SortedSeq(S) == IF S = {} THEN <<>>
                ELSE LET m == CHOOSE x \in S : \A y \in S : x <= y
                     IN <<m>> \o SortedSeq(S \ {m})

\* the energy of every stored torus, whatever its nodes did
offending_Es_all(still) == SortedSeq({internal_Es[i] : i \in Tori})

\* line 742: sorted(set(Egrid[unconv])), the energies the warning lists
offending_Es(still) == SortedSeq({internal_Es[n[1]] : n \in still})

\* _create_rgrid, lines 702-745: one pass of the bisection loop
BisectPass ==
    /\ LET ndr == [i \in Tori |-> dr[i] \div 2]
           rg == [i \in Tori |-> [k \in Nodes |->
                    IF <<i, k>> \in unconv THEN tryr_min[<<i, k>>] + ndr[i]
                    ELSE rgrid[i][k]]]
           newta(n) == LET a == anglera(n[1], rg[n[1]][n[2]])
                       IN IF a = NaN THEN NaN ELSE (a + TwoPi) % TwoPi
           dta(n) == IF newta(n) = NaN THEN NaN ELSE Wrap(newta(n) - thetaa(n[2]))
           still == {n \in unconv : NotWithinTol(dta(n))}
       IN /\ dr' = ndr
          /\ rgrid' = rg
          /\ ta' = [i \in Tori |-> [k \in Nodes |->
                      IF <<i, k>> \in unconv THEN newta(<<i, k>>) ELSE ta[i][k]]]
          /\ tryr_min' = [n \in still |->
                IF newta(n) # NaN /\ newta(n) < thetaa(n[2])
                  THEN rg[n[1]][n[2]] ELSE tryr_min[n]]
          /\ unconv' = still
          /\ written' = written \cup unconv
          /\ cntr' = cntr + 1
          /\ iters' = [iters EXCEPT !.bisect = @ + 1]
          /\ IF still = {}
               THEN UNCHANGED warnings /\ pc' = "reflect"
             ELSE IF cntr + 1 > maxiter
               THEN /\ Warn([kind |-> "bisection", maxiter |-> maxiter,
                             Es |-> offending_Es(still)])
                    /\ pc' = "reflect"
             ELSE UNCHANGED warnings /\ pc' = "bisect"
    /\ err' = err

\* _create_rgrid, lines 702-745: one pass of the bisection loop
BisectIter ==
    /\ pc = "bisect"
    /\ IF MaskFits THEN BisectPass
       ELSE Raise("IndexError") /\ UNCHANGED <<warnings, gridvars>>
    /\ UNCHANGED <<cfgvars, others, torusvars, ptvars, dSndJr, frame>>

\* line 746: rgrid[:, nta//2+1:] = rgrid[:, 1:nta//2][:, ::-1].  The right-hand
\* side has Half - 1 columns and the left-hand side nta - Half - 1: numpy
\* copies when they agree, repeats a single column, and raises otherwise
lhs_cols == nta - Half - 1
rhs_cols == Max(0, Half - 1)
Reflect ==
    /\ pc = "reflect"
    /\ IF lhs_cols = rhs_cols \/ rhs_cols = 1 \/ lhs_cols = 0
         THEN /\ rgrid' = [i \in Tori |-> [k \in Nodes |->
                    IF k <= Half THEN rgrid[i][k]
                    ELSE IF rhs_cols = 1 THEN rgrid[i][1]
                    ELSE rgrid[i][Half - (k - Half)]]]
              /\ pc' = "fourier" /\ err' = err
         ELSE Raise("ValueError") /\ UNCHANGED rgrid
    /\ UNCHANGED <<warnings, cfgvars, others, torusvars, ptvars, ta, unconv, cntr,
                   tryr_min, dr, iters, written, dSndJr, frame>>

\* a torus whose turning points coincide: every division by
\* (ptrap - ptrperi) in _jraora / _djradjrLish is a division by zero
Degenerate(i) == pt_rap[i] = pt_rperi[i]

\* lines 352-356: "if setup_interp:" coefficients under the floor become 0.0;
\* line 357: the harmonic n = 1 is then divided by its number
zero_noise(c) == (IF setup_interp /\ Abs(c) < DSnFloor THEN 0 ELSE c) \div 1

\* __init__, lines 271-367: the mapping coefficients and their Fourier series;
\* the locals of _create_rgrid are gone
FinishConstruction ==
    /\ pc = "fourier"
    /\ \E c \in SeqOf(SeriesSet, Len(internal_Es)) :
         /\ \A i \in Tori : Degenerate(i) => c[i] = 0
         /\ dSndJr' = [i \in Tori |-> IF Degenerate(i) THEN NaN ELSE zero_noise(c[i])]
    \* line 307: self._jr = mean(jra); lines 311-312: the frequencies
    /\ jr' = [i \in Tori |-> IF Degenerate(i) THEN NaN ELSE jr[i]]
    /\ Omegar' = [i \in Tori |-> IF Degenerate(i) THEN NaN ELSE Omegar[i]]
    /\ Omegaz' = [i \in Tori |-> IF Degenerate(i) THEN NaN ELSE Omegaz[i]]
    /\ ta' = <<>> /\ unconv' = {} /\ cntr' = 0 /\ tryr_min' = <<>> /\ dr' = <<>>
    /\ iters' = [newton |-> 0, bisect |-> 0] /\ written' = {}
    /\ vrls' = <<>>
    /\ pc' = "done"
    /\ UNCHANGED <<err, warnings, cfgvars, others, internal_Es, internal_Ls, rperi, rap,
                   numerics, ptvars, rgrid, frame>>

\* ------------------------------------------------------- _xvFreqs, _Freqs
\* numpy.nanargmin(numpy.fabs(jr - self._jr)): the first index of the smallest
\* non-NaN distance, 0 standing for the ValueError of an all-NaN array
nanargmin_jr(qjr) ==
    LET ok == {i \in Tori : jr[i] # NaN}
    IN IF ok = {} THEN 0
       ELSE CHOOSE i \in ok :
              /\ \A m \in ok : Abs(qjr - jr[i]) <= Abs(qjr - jr[m])
              /\ \A m \in ok : m < i => Abs(qjr - jr[m]) > Abs(qjr - jr[i])

\* lines 1351-1358 (Lsrc = self._internal_Ls) and 1552-1559 (Lsrc = self._Ls):
\* the torus of the query q = <<jr, jphi, jz>>, 0 if the lookup raises
FindTorus(q, Lsrc) ==
    LET indx == nanargmin_jr(q[1])
    IN IF indx = 0 THEN 0
       ELSE IF Abs(q[1] - jr[indx]) > LookupTol
               \/ Abs(q[3] + Abs(q[2]) - Lsrc[indx]) > LookupTol
         THEN 0
       ELSE indx

\* sin and the sign of cos in fixed point: a triangle wave of amplitude 30
sin30(a) == LET x == a % TwoPi
            IN IF x <= TwoPi \div 4 THEN x
               ELSE IF x <= 3 * (TwoPi \div 4) THEN Pi - x
               ELSE x - TwoPi
cosSign(a) == LET x == a % TwoPi
              IN IF x < TwoPi \div 4 \/ x >= 3 * (TwoPi \div 4) THEN 1 ELSE 0 - 1

\* lines 1383-1385: anglera + 2 sum_n dSndJr sin(n anglera)
tar_of(indx, a) == a + DivRound(2 * dSndJr[indx] * sin30(a), 30)
\* lines 1391-1396: 1 + 2 sum_n n dSndJr cos(n anglera), as <<num, den>>
danglear(indx, a) == <<30 + 2 * dSndJr[indx] * cosSign(a), 30>>
\* line 1389
maxdar == TwoPi \div MaxdarDiv

InCall(t) == frame[t].st \in {"newton", "bisect_start", "bisect", "finish"}
Idx(f) == 1..Len(f.angler)

\* _xvFreqs, lines 1349-1389: find the torus and set up the solve
EvalCall(t) ==
    /\ pc = "done" /\ ~InCall(t)
    /\ \E q \in QuerySet, angler \in AnglerChoices :
         LET indx == FindTorus(q, internal_Ls)
             tar == [n \in 1..Len(angler) |-> tar_of(indx, angler[n])]
         IN frame' = [frame EXCEPT ![t] =
              \* lines 1375-1376, "else: pass": no torus is looked up and
              \* line 1383 reads tdSndJr, which was never bound
              IF setup_interp
                THEN [st |-> "raised", fn |-> "evaluate", q |-> q, angler |-> angler,
                      err |-> "UnboundLocalError"]
              ELSE IF indx = 0
                THEN [st |-> "raised", fn |-> "evaluate", q |-> q, angler |-> angler,
                      err |-> "ValueError"]
                ELSE [st |-> FirstPhase,
                      fn |-> "evaluate", q |-> q, angler |-> angler, indx |-> indx,
                      anglera |-> angler, tar |-> tar,
                      unconv |-> {n \in 1..Len(angler) :
                                     NotWithinTol(Wrap(tar[n] - angler[n]))},
                      cntr |-> 0, tryar_min |-> <<>>, dar |-> 0,
                      iters |-> [newton |-> 0, bisect |-> 0], warnings |-> <<>>]]
    /\ UNCHANGED <<pc, err, warnings, cfgvars, others, torusvars, ptvars, gridvars, dSndJr>>

\* lines 1397-1403: the Newton step of an active angle, clamped to maxdar
newton_dar(f, n) ==
    LET dtar == Wrap(f.tar[n] - f.angler[n])
        d == danglear(f.indx, f.anglera[n])
        raw == DivRound((0 - dtar) * d[2], d[1])
    IN IF Abs(raw) > maxdar THEN Sign(raw) * maxdar ELSE raw

\* _xvFreqs, lines 1390-1421: one pass of the Newton-Raphson loop
EvalNewtonIter(t) ==
    /\ frame[t].st = "newton"
    /\ LET f == frame[t]
           na == [n \in Idx(f) |-> IF n \in f.unconv
                                     THEN f.anglera[n] + newton_dar(f, n)
                                     ELSE f.anglera[n]]
           \* line 1405: the test uses dtar of line 1397, computed before the step
           still == {n \in f.unconv : NotWithinTol(Wrap(f.tar[n] - f.angler[n]))}
           exhausted == NewtonGivesUp(still, f.cntr + 1)
       IN frame' = [frame EXCEPT ![t] = [f EXCEPT
              !.anglera = na,
              !.unconv = still,
              !.tar = [n \in Idx(f) |-> IF n \in still THEN tar_of(f.indx, na[n])
                                        ELSE f.tar[n]],
              !.cntr = f.cntr + 1,
              !.iters = [f.iters EXCEPT !.newton = @ + 1],
              !.warnings = IF exhausted
                             THEN Append(@, [kind |-> "newton", maxiter |-> maxiter,
                                             angles |-> <<>>])
                             ELSE @,
              \* line 1423: the bisection block is entered whenever cntr > maxiter
              !.st = IF f.cntr + 1 > maxiter THEN "bisect_start"
                     ELSE IF still = {} THEN "finish" ELSE "newton"]]
    /\ UNCHANGED <<pc, err, warnings, cfgvars, others, torusvars, ptvars, gridvars, dSndJr>>

\* _xvFreqs, lines 1423-1427: set up the bisection
EvalBisectStart(t) ==
    /\ frame[t].st = "bisect_start"
    /\ frame' = [frame EXCEPT ![t] = [frame[t] EXCEPT
           !.cntr = 0,
           !.tryar_min = [n \in frame[t].unconv |-> 0],
           !.dar = TwoPi,
           !.st = "bisect"]]
    /\ UNCHANGED <<pc, err, warnings, cfgvars, others, torusvars, ptvars, gridvars, dSndJr>>

\* _xvFreqs, lines 1428-1461: one pass of the bisection loop
EvalBisectIter(t) ==
    /\ frame[t].st = "bisect"
    /\ LET f == frame[t]
           ndar == f.dar \div 2
           na == [n \in Idx(f) |-> IF n \in f.unconv THEN f.tryar_min[n] + ndar
                                   ELSE f.anglera[n]]
           newtar(n) == (tar_of(f.indx, na[n]) + TwoPi) % TwoPi
           still == {n \in f.unconv : NotWithinTol(Wrap(newtar(n) - f.angler[n]))}
           exhausted == still # {} /\ f.cntr + 1 > maxiter
       IN frame' = [frame EXCEPT ![t] = [f EXCEPT
              !.dar = ndar,
              !.anglera = na,
              !.tar = [n \in Idx(f) |-> IF n \in f.unconv THEN newtar(n) ELSE f.tar[n]],
              !.tryar_min = [n \in still |-> IF newtar(n) < f.angler[n] THEN na[n]
                                             ELSE f.tryar_min[n]],
              !.unconv = still,
              !.cntr = f.cntr + 1,
              !.iters = [f.iters EXCEPT !.bisect = @ + 1],
              !.warnings = IF exhausted
                             THEN Append(@, [kind |-> "bisection", maxiter |-> maxiter,
                                    angles |-> SortedSeq({f.angler[n] : n \in still})])
                             ELSE @,
              !.st = IF still = {} \/ exhausted THEN "finish" ELSE "bisect"]]
    /\ UNCHANGED <<pc, err, warnings, cfgvars, others, torusvars, ptvars, gridvars, dSndJr>>

\* lines 1364-1365 and 1521 / 1560-1564: (tOmegar, sign(jphi) tOmegaz, tOmegaz)
FreqsOf(indx, q) == <<Omegar[indx], Sign(q[2]) * Omegaz[indx], Omegaz[indx]>>

\* a call that filters the Fourier row it looked up in place
StoredAfterCall_inplace(t) ==
    /\ dSndJr' = [i \in Tori |-> IF dSndJr[i] = NaN THEN NaN ELSE 0]
    /\ UNCHANGED <<pc, err, warnings, cfgvars, others, torusvars, ptvars, gridvars>>

\* what _xvFreqs and _Freqs assign to among the engine's attributes: nothing
StoredAfterCall(t) == UNCHANGED <<pc, err, warnings, cfgvars, others, torusvars, ptvars,
                                  gridvars, dSndJr>>

\* _xvFreqs, lines 1462-1521: the phase-space point of every solved angle
EvalReturn(t) ==
    /\ frame[t].st = "finish"
    /\ LET f == frame[t]
       IN frame' = [frame EXCEPT ![t] =
             [st |-> "returned", fn |-> "evaluate", q |-> f.q, angler |-> f.angler,
              indx |-> f.indx, anglera |-> f.anglera, freqs |-> FreqsOf(f.indx, f.q),
              iters |-> f.iters, warnings |-> f.warnings]]
    /\ StoredAfterCall(t)

\* _Freqs without the comparison of L at line 1555
FreqsCall_noL(t) ==
    /\ pc = "done" /\ ~InCall(t)
    /\ \E q \in QuerySet :
         LET indx == nanargmin_jr(q[1])
         IN frame' = [frame EXCEPT ![t] =
              IF indx = 0 \/ Abs(q[1] - jr[indx]) > LookupTol
                THEN [st |-> "raised", fn |-> "frequencies", q |-> q,
                      err |-> "ValueError"]
                ELSE [st |-> "returned", fn |-> "frequencies", q |-> q,
                      indx |-> indx, freqs |-> FreqsOf(indx, q)]]
    /\ StoredAfterCall(t)

\* _Freqs, lines 1550-1564
FreqsCall(t) ==
    /\ pc = "done" /\ ~InCall(t)
    /\ \E q \in QuerySet :
         LET indx == FindTorus(q, Ls)
         IN frame' = [frame EXCEPT ![t] =
              \* lines 1562-1564, "else: pass": tOmegar was never bound
              IF setup_interp
                THEN [st |-> "raised", fn |-> "frequencies", q |-> q,
                      err |-> "UnboundLocalError"]
              ELSE IF indx = 0
                THEN [st |-> "raised", fn |-> "frequencies", q |-> q,
                      err |-> "ValueError"]
                ELSE [st |-> "returned", fn |-> "frequencies", q |-> q,
                      indx |-> indx, freqs |-> FreqsOf(indx, q)]]
    /\ StoredAfterCall(t)

Construct == CheckArgs \/ ComputeActions \/ MatchIsochrone \/ SetupPointTransform
             \/ CreateRgrid \/ NewtonIter \/ BisectStart \/ BisectIter \/ Reflect
             \/ FinishConstruction

Call(t) == EvalCall(t) \/ EvalNewtonIter(t) \/ EvalBisectStart(t)
           \/ EvalBisectIter(t) \/ EvalReturn(t) \/ FreqsCall(t)

\* one engine, one caller
Next == Construct \/ Call(1)

Spec == Init /\ [][Next]_vars

\* the constructor of an engine on a grid of tori
SpecGrid == InitGrid /\ [][Construct]_vars

\* one engine, two threads calling it at the same time
InitThreads == Init /\ pot = "pot" /\ Len(Es) = Len(Ls) /\ nta = MaxNta - 2
               /\ ~use_pointtransform /\ ~bisect
NextThreads == Construct \/ \E t \in Threads : Call(t)

SpecThreads == InitThreads /\ [][NextThreads]_vars

\* ------------------------------------------- actionAngleSphericalInverseSingle
\* the engine of one torus, lines 1570-1813: its constructor solves
\* angler(r) = thetara[ii] for the radii of the first half of the angle grid
NtrSet == NtaSet                            \* ntr a caller may pass
SingleOrbits == {o \in OrbitSet : o.jr > 0}
                \cup {[jr |-> 2, rperi |-> 30, rap |-> 60]}

\* the engine stays as it is while a single torus is built
EngineIdle == UNCHANGED <<pc, err, warnings, cfgvars, torusvars, ptvars, gridvars,
                          dSndJr, frame>>

\* line 1711: thetara = linspace(0, 2 pi (1 - 1 / ntr), ntr), index from 0
thetara(ntr, ii) == (ii * TwoPi) \div ntr

\* the isochrone helper's angler at radius r of an orbit between rp and ra:
\* 0 at rp, pi at ra, increasing in between
single_angler(r, rp, ra) == ((r - rp) * Pi) \div (ra - rp)

\* the radius in [rp, ra] at which single_angler reaches tra
single_root(tra, rp, ra) == rp + (tra * (ra - rp)) \div Pi

\* lines 1748-1760: optimize.brentq(angler - tra, a, b) raises ValueError
\* unless angler - tra changes sign over [a, b], and otherwise returns the root
brentq(tra, a, b, rp, ra) ==
    LET fa == single_angler(a, rp, ra) - tra
        fb == single_angler(b, rp, ra) - tra
    IN  IF fa * fb > 0 THEN [ok |-> FALSE, err |-> "ValueError"]
        ELSE [ok |-> TRUE, r |-> single_root(tra, rp, ra)]

InitSingle ==
    /\ InitArgs /\ setup_interp = FALSE /\ grid = <<1, 1>>
    /\ pot = "pot" /\ Es = <<1>> /\ Ls = <<1>>
    /\ ~use_pointtransform /\ nta = MaxNta /\ ~bisect
    /\ profile = NoProfile
    /\ \E n \in NtrSet, nw \in BOOLEAN, o \in SingleOrbits, f \in FreqSet :
          single = [pc |-> "new", err |-> "none", ntr |-> n, use_newton |-> nw,
                    rperi |-> o.rperi, rap |-> o.rap,
                    Omegar |-> f.Omegar, Omegaz |-> f.Omegaz,
                    ii |-> 0, tr |-> 0, solvera |-> <<>>]

\* lines 1630-1709: store the torus and match an isochrone to its frequencies
SingleStart ==
    /\ single.pc = "new"
    /\ IF single.Omegaz > single.Omegar \/ 2 * single.Omegaz < single.Omegar
       THEN single' = [single EXCEPT !.pc = "failed", !.err = "NotImplementedError"]
       ELSE single' = [single EXCEPT !.pc = "solve"]
    /\ EngineIdle /\ UNCHANGED profile

\* the start optimize.newton gets at node ii: the radius of the node before,
\* and rap at the last interior node (line 1726)
newton_start(ii) == IF ii = (single.ntr \div 2) - 1 THEN single.rap ELSE single.tr

\* lines 1717-1789, one pass of the loop over thetara[: ntr // 2 + 1]:
\* converges says whether optimize.newton finds the root or raises RuntimeError
SingleSolveNode ==
    /\ single.pc = "solve"
    /\ single.ii <= single.ntr \div 2
    /\ \E converges \in BOOLEAN :
         LET ii == single.ii
             tra == thetara(single.ntr, ii)
             rp == single.rperi
             ra == single.rap
             interior == ii # 0 /\ ii # single.ntr \div 2
             try_newton == interior /\ single.use_newton
             start == IF try_newton THEN newton_start(ii) ELSE single.tr
             use_brent == interior /\ (~single.use_newton \/ ~converges)
             b == brentq(tra, start, ra, rp, ra)
             tr == IF ii = 0 THEN rp
                   ELSE IF ii = single.ntr \div 2 THEN ra
                   ELSE IF use_brent THEN b.r
                   ELSE single_root(tra, rp, ra)
         IN  /\ (~try_newton => converges)
             /\ IF use_brent /\ ~b.ok
                THEN single' = [single EXCEPT !.pc = "failed", !.err = b.err,
                                              !.tr = start]
                ELSE single' = [single EXCEPT !.tr = tr, !.ii = ii + 1,
                                              !.solvera = Append(@, tr)]
    /\ EngineIdle /\ UNCHANGED profile

\* lines 1790-1813: mirror the first half into the second and store
SingleFinish ==
    /\ single.pc = "solve"
    /\ single.ii = (single.ntr \div 2) + 1
    /\ LET ntr == single.ntr
           half == single.solvera
           \* solvera[::-1][ntr // 2 : -1], on an array of which the first
           \* ntr // 2 + 1 entries are set
           mirrored == [k \in 1..(ntr - (ntr \div 2) - 1) |->
                           half[ntr - (ntr \div 2) - k + 1]]
       IN  single' = [single EXCEPT !.pc = "done", !.solvera = half \o mirrored]
    /\ EngineIdle /\ UNCHANGED profile

NextSingle == SingleStart \/ SingleSolveNode \/ SingleFinish

\* the constructor of a single-torus engine
SpecSingle == InitSingle /\ [][NextSingle]_vars

\* ------------------------------------------------ galpy_profile (amuse.py)
\* An AMUSE time is [v |-> number, u |-> unit]; a plain float has u = "none".
\* galpy times (tgalpy) are integers in units of which a Myr holds PerMyr.
MaxCalls == 2                               \* evolve_model calls in one run
ScaleSet == {<<8, 220>>, <<8, 110>>}        \* <<ro, vo>> a caller may pass
TimeSet == {[v |-> 0, u |-> "Gyr"], [v |-> 1, u |-> "Gyr"],
            [v |-> 500, u |-> "Myr"], [v |-> 1000, u |-> "Myr"]}
\* the t and tgalpy a caller may pass: plain floats in galpy units, or times
StartSet == {[v |-> 0, u |-> "none"], [v |-> 220000, u |-> "none"],
             [v |-> 1, u |-> "Gyr"], [v |-> 500, u |-> "Myr"]}

\* isinstance(t, ScalarQuantity)
IsQuantity(t) == t.u # "none"
\* t.value_in(units.Gyr), counted in Myr
value_in_Myr(t) == IF t.u = "Gyr" THEN 1000 * t.v ELSE t.v
\* 1 / bovy_conversion.time_in_Gyr(ro, vo) is proportional to vo / ro
PerMyr(ro, vo) == (vo * 8) \div ro
\* x.value_in(units.Gyr) / bovy_conversion.time_in_Gyr(ro=ro, vo=vo)
to_galpy(myr, ro, vo) == myr * PerMyr(ro, vo)
\* t * bovy_conversion.time_in_Gyr(ro=ro, vo=vo) | units.Gyr
to_Gyr(t, ro, vo) == [v |-> t \div (1000 * PerMyr(ro, vo)), u |-> "Gyr"]

InitAmuse ==
    /\ InitArgs /\ setup_interp = FALSE /\ grid = <<1, 1>>
    /\ pot = "pot" /\ Es = <<1>> /\ Ls = <<1>>
    /\ ~use_pointtransform /\ nta = MaxNta /\ ~bisect
    /\ single = NoSingle
    /\ \E t \in StartSet, tg \in StartSet, sc \in ScaleSet, rev \in BOOLEAN :
          profile = [st |-> "new", t |-> t, tgalpy_arg |-> tg,
                     ro |-> sc[1], vo |-> sc[2], reverse |-> rev]

\* lines 19-69: galpy_profile.__init__
ProfileInit ==
    /\ profile.st = "new"
    /\ profile' = [st |-> "ready", t |-> profile.t, tgalpy_arg |-> profile.tgalpy_arg,
                   ro |-> profile.ro, vo |-> profile.vo, reverse |-> profile.reverse,
                   model_time |-> IF IsQuantity(profile.t) THEN profile.t
                                  ELSE to_Gyr(profile.t.v, profile.ro, profile.vo),
                   tgalpy |-> IF IsQuantity(profile.tgalpy_arg)
                              THEN to_galpy(value_in_Myr(profile.tgalpy_arg),
                                            profile.ro, profile.vo)
                              ELSE profile.tgalpy_arg.v,
                   calls |-> <<>>, asked |-> <<>>]
    /\ EngineIdle /\ UNCHANGED single

\* evolve_model that adds the whole time instead of the difference
evolve_dt_absolute(time) == value_in_Myr(time)
\* line 85: dt = time - self.model_time, in Myr
evolve_dt(time) == value_in_Myr(time) - value_in_Myr(profile.model_time)

\* lines 71-91: galpy_profile.evolve_model(time); calls lists the times passed
EvolveModel ==
    /\ profile.st = "ready"
    /\ Len(profile.calls) < MaxCalls
    /\ \E time \in TimeSet :
         LET dt == evolve_dt(time)
             step == to_galpy(dt, profile.ro, profile.vo)
         IN  profile' = [profile EXCEPT
                 !.model_time = time,
                 !.tgalpy = IF profile.reverse THEN @ - step ELSE @ + step,
                 !.calls = Append(@, time)]
    /\ EngineIdle /\ UNCHANGED single

\* lines 93-113: get_potential_at_point evaluates the potential at t = tgalpy;
\* asked lists the galpy times the potential was evaluated at
GetPotentialAtPoint ==
    /\ profile.st = "ready"
    /\ Len(profile.asked) <= Len(profile.calls)
    /\ profile' = [profile EXCEPT !.asked = Append(@, profile.tgalpy)]
    /\ EngineIdle /\ UNCHANGED single

NextAmuse == ProfileInit \/ EvolveModel \/ GetPotentialAtPoint

\* one galpy_profile and its caller
SpecAmuse == InitAmuse /\ [][NextAmuse]_vars

\* ================================================================== claims
Constructed == pc = "done"
GridBuilt == pc \in {"fourier", "done"}
\* the frequency ratio Omegaz / Omegar of torus i lies in [0.5, 1]
RatioMatchable(i) == ~(Omegaz[i] > Omegar[i] \/ 2 * Omegaz[i] < Omegar[i])

\* C1: construction never completes with a stored torus that has
\* Omegaz > Omegar or Omegaz < Omegar / 2; it raises instead.
C1_DegenerateRejected ==
    Constructed => \A i \in Tori : Omegar[i] # NaN => RatioMatchable(i)

\* torus i matches the query q = <<jr, jphi, jz>> in both Jr and L
Matches(i, q) == /\ jr[i] # NaN
                 /\ Abs(q[1] - jr[i]) <= LookupTol
                 /\ Abs(q[3] + Abs(q[2]) - internal_Ls[i]) <= LookupTol

\* C2: evaluate raises the lookup error only when no stored torus matches the
\* query in both Jr and L, and otherwise works on a torus that matches both.
C2_LookupFindsMatch ==
    \A t \in Threads :
      (frame[t].st # "idle" /\ frame[t].fn = "evaluate") =>
         IF frame[t].st = "raised"
           THEN ~ \E i \in Tori : Matches(i, frame[t].q)
           ELSE Matches(frame[t].indx, frame[t].q)

Finished(t) == frame[t].st \in {"returned", "raised"}
SameCall(t, u) == /\ Finished(t) /\ Finished(u)
                  /\ frame[t].fn = frame[u].fn /\ frame[t].q = frame[u].q
                  /\ (frame[t].fn = "evaluate" => frame[t].angler = frame[u].angler)

\* C3: once the engine is constructed, no step of an evaluate or frequencies
\* call, in any interleaving of two threads, changes a stored table, and two
\* finished calls with the same arguments hold the same outcome.
C3_CallsArePure ==
    /\ [](\A t, u \in Threads : SameCall(t, u) => frame[t] = frame[u])
    /\ [][Constructed => stored' = stored]_vars

\* two threads have made the same successful evaluate call, each of them
\* iterating, after the engine was built
C3_Witness ==
    /\ Constructed /\ SameCall(1, 2)
    /\ frame[1].fn = "evaluate" /\ frame[1].st = "returned"
    /\ frame[1].iters.newton > 1

\* C4: without a potential, or with Es and Ls of different lengths, the
\* constructor raises before any torus is computed; with equal lengths a
\* constructed engine holds len(Es) tori and torus i has (Es[i], Ls[i]).
C4_ArgumentChecks ==
    /\ (pot = "None" \/ Len(Es) # Len(Ls)) =>
          /\ pc \in {"new", "failed"}
          /\ jr = <<>> /\ rgrid = <<>>
          /\ pc = "failed" => err = (IF pot = "None" THEN "OSError" ELSE "ValueError")
    /\ Constructed =>
          /\ Len(internal_Es) = Len(Es) /\ Len(internal_Ls) = Len(Es)
          /\ Len(jr) = Len(Es) /\ Len(rgrid) = Len(Es)
          /\ \A i \in 1..Len(Es) : internal_Es[i] = Es[i] /\ internal_Ls[i] = Ls[i]

\* an engine of two tori with different energies has been constructed
C4_Witness == Constructed /\ Len(Es) = 2 /\ Es[1] # Es[2] /\ Ls[1] # Ls[2]

\* C5: every root-finding pass runs at most maxiter Newton iterations and
\* at most maxiter bisection iterations, in construction and in evaluate.
C5_IterationBound ==
    /\ iters.newton <= maxiter /\ iters.bisect <= maxiter
    /\ \A t \in Threads :
         (frame[t].st # "idle" /\ frame[t].fn = "evaluate" /\ frame[t].st # "raised") =>
            frame[t].iters.newton <= maxiter /\ frame[t].iters.bisect <= maxiter

Untransformed(i) == ~(use_pointtransform /\ pt_deg > 1) \/ jr[i] = NaN \/ jr[i] < JrFloor

C7_ReflectionSymmetry ==
    GridBuilt => \A i \in Tori : \A k \in 1..(nta - 1) : rgrid[i][k] = rgrid[i][nta - k]

\* C8: after construction every stored radius lies in [rperi, rap].
C8_WithinTurningPoints ==
    GridBuilt => \A i \in Tori : \A k \in Nodes :
                    rperi[i] <= rgrid[i][k] /\ rgrid[i][k] <= rap[i]

\* C9: after construction the radius table is non-decreasing over 0..nta/2
\* and non-increasing over nta/2..nta-1.
C9_Monotone ==
    GridBuilt => \A i \in Tori : \A k \in 0..(nta - 2) :
                    IF k < Half THEN rgrid[i][k] <= rgrid[i][k + 1]
                    ELSE rgrid[i][k] >= rgrid[i][k + 1]

\* C10: the stored point-transform polynomial has P(0) = 0, P(1) = 1,
\* P'(0) = 1 and P'(1) = 1, with the transform enabled or disabled.
C10_BoundaryConditions ==
    pt_coeffs # <<>> => \A i \in Tori :
        /\ polyval0(pt_coeffs[i]) = 0
        /\ polyval1(pt_coeffs[i]) = CoefScale
        /\ polyval0(polyder(pt_coeffs[i])) = CoefScale
        /\ polyval1(polyder(pt_coeffs[i])) = CoefScale

\* C11: frequencies raises the lookup error exactly when evaluate with the
\* same actions raises it, and otherwise returns the frequencies evaluate
\* returns, from the same stored torus, with Omegaphi = sign(Jphi) * Omegaz.
C11_FreqsAgreeWithEvaluate ==
    \A t, u \in Threads :
      (/\ Finished(t) /\ frame[t].fn = "frequencies"
       /\ Finished(u) /\ frame[u].fn = "evaluate"
       /\ frame[t].q = frame[u].q) =>
         /\ frame[t].st = frame[u].st
         /\ frame[t].st = "raised" => frame[t].err = frame[u].err
         /\ frame[t].st = "returned" =>
               /\ frame[t].indx = frame[u].indx
               /\ frame[t].freqs = frame[u].freqs
               /\ frame[t].freqs[2] = Sign(frame[t].q[2]) * Omegaz[frame[t].indx]

\* one thread holds the frequencies and the other the evaluation of the same
\* actions with Jphi < 0, both found in the second of two stored tori
C11_Witness ==
    /\ frame[1].st = "returned" /\ frame[1].fn = "frequencies"
    /\ frame[2].st = "returned" /\ frame[2].fn = "evaluate"
    /\ frame[1].q = frame[2].q /\ frame[1].q[2] < 0 /\ frame[1].indx = 2

\* tori that still have an active node
Offending == {i \in Tori : \E k \in Nodes : <<i, k>> \in unconv}
BisectionWarnings == {n \in 1..Len(warnings) : warnings[n].kind = "bisection"}

\* C12: when the bisection loop of the constructor gives up with nodes still
\* active, it appends one warning that lists exactly the energies of the tori
\* owning those nodes, leaves the last trial radius in them, and the
\* constructor goes on to the reflection, which keeps the solved half as it is.
C12_BisectionWarning ==
    /\ [](Cardinality(BisectionWarnings) <= 1)
    /\ [][(pc = "bisect" /\ pc' # "bisect" /\ unconv' # {}) =>
            /\ pc' = "reflect" /\ err' = err
            /\ warnings' = Append(warnings,
                   [kind |-> "bisection", maxiter |-> maxiter,
                    Es |-> SortedSeq({internal_Es[i] : i \in Offending'})])
            /\ \A n \in unconv' : rgrid'[n[1]][n[2]] = tryr_min[n] + dr'[n[1]]]_vars
    /\ [][(pc = "reflect" /\ pc' = "fourier") =>
            /\ warnings' = warnings
            /\ \A i \in Tori : \A k \in 0..Half : rgrid'[i][k] = rgrid[i][k]]_vars

\* an engine of two tori was constructed after the bisection gave up on
\* nodes of only one of them
C12_Witness ==
    /\ Constructed /\ Len(internal_Es) = 2 /\ internal_Es[1] # internal_Es[2]
    /\ \E n \in BisectionWarnings : Len(warnings[n].Es) = 1

\* thread t holds the iteration counts and warnings of an evaluate call
HasSolve(t) == InCall(t) \/ (frame[t].st = "returned" /\ frame[t].fn = "evaluate")
NewtonWarned(ws) == \E n \in 1..Len(ws) : ws[n].kind = "newton"

\* C13: with bisect = True no Newton-Raphson iteration runs and no Newton
\* warning is emitted, in the constructor and in evaluate; the radius table
\* is written by the bisection loop and the reflection only.
C13_BisectSkipsNewton ==
    /\ [](bisect =>
            /\ pc # "newton" /\ iters.newton = 0 /\ ~NewtonWarned(warnings)
            /\ \A t \in Threads : HasSolve(t) =>
                  /\ frame[t].st # "newton" /\ frame[t].iters.newton = 0
                  /\ ~NewtonWarned(frame[t].warnings))
    /\ [][(bisect /\ rgrid # <<>> /\ rgrid' # rgrid) => pc \in {"bisect", "reflect"}]_vars

\* with bisect = True an evaluate call returned after bisection steps on an
\* engine whose table was written by the bisection loop
C13_Witness ==
    /\ bisect /\ Constructed
    /\ \E i \in Tori : \E k \in Solved : rgrid[i][k] # initial_rgrid(i, k)
    /\ frame[1].st = "returned" /\ frame[1].fn = "evaluate"
    /\ frame[1].iters.bisect > 1

\* torus i is a circular orbit: the forward solver gave rperi = rap
Circular(i) == rperi[i] = rap[i]

\* C15: a torus with Jr = 0 (rperi = rap) is constructed with finite tables,
\* its radius table is constant at rperi = rap, and evaluate of its actions
\* (Jr = 0, L = L_i) returns instead of raising.
C15_CircularOrbit ==
    Constructed =>
      /\ \A i \in Tori : Circular(i) =>
            /\ jr[i] = 0 /\ dSndJr[i] # NaN
            /\ \A k \in Nodes : rgrid[i][k] = rperi[i]
      /\ \A t \in Threads :
            (/\ frame[t].st # "idle" /\ frame[t].fn = "evaluate" /\ frame[t].q[1] = 0
             /\ \E i \in Tori : /\ Circular(i)
                                /\ frame[t].q[3] + Abs(frame[t].q[2]) = internal_Ls[i])
            => frame[t].st # "raised"

\* C16: the Newton loop, in the constructor and in evaluate, emits its
\* fallback warning exactly when it ends with a node still active, and the
\* bisection that follows leaves every node outside the active set as it was.
C16_FallbackOnlyForUnconverged ==
    /\ [][(pc = "newton" /\ pc' # "newton") =>
            IF unconv' # {}
              THEN warnings' = Append(warnings,
                       [kind |-> "newton", maxiter |-> maxiter, Es |-> <<>>])
              ELSE warnings' = warnings]_vars
    /\ [][(pc \in {"bisect_start", "bisect"}) =>
            \A i \in Tori : \A k \in Nodes :
               <<i, k>> \notin unconv => rgrid'[i][k] = rgrid[i][k]]_vars
    /\ [][\A t \in Threads :
            /\ (frame[t].st = "newton" /\ frame'[t].st # "newton") =>
                  IF frame'[t].unconv # {}
                    THEN frame'[t].warnings = Append(frame[t].warnings,
                             [kind |-> "newton", maxiter |-> maxiter, angles |-> <<>>])
                    ELSE frame'[t].warnings = frame[t].warnings
            /\ frame[t].st \in {"bisect_start", "bisect"} =>
                  \A n \in Idx(frame[t]) :
                     n \notin frame[t].unconv =>
                        frame'[t].anglera[n] = frame[t].anglera[n]]_vars

\* the bisection has run after a Newton warning while a node that the Newton
\* loop finished sits next to nodes that are still active
C16_Witness ==
    /\ pc = "bisect" /\ iters.bisect >= 1 /\ NewtonWarned(warnings) /\ unconv # {}
    /\ \E n \in written \ unconv : numerics[n[1]] = "exact"
    /\ \A m \in unconv : numerics[m[1]] = "coarse"

\* the constructor is between the first tolerance test and the reflection
Solving == pc \in {"newton", "bisect_start", "bisect", "reflect"}
\* the 2pi-wrapped residual of a value is within angle_tol (False for NaN)
WithinTol(a, target) == a # NaN /\ Abs(Wrap(a - target)) <= AngleTol

\* C17: a node outside the active set, in the constructor and in evaluate,
\* has a 2pi-wrapped residual within angle_tol at the value stored for it.
C17_ConvergedAtStoredValue ==
    /\ Solving => \A i \in Tori : \A k \in Solved :
          <<i, k>> \notin unconv => WithinTol(anglera(i, rgrid[i][k]), thetaa(k))
    /\ \A t \in Threads : InCall(t) => \A n \in Idx(frame[t]) :
          n \notin frame[t].unconv =>
             WithinTol(tar_of(frame[t].indx, frame[t].anglera[n]), frame[t].angler[n])

\* C18: in the constructor the active set only loses members from the first
\* tolerance test through the Newton and the bisection loop, it never holds
\* index 0 or an index >= nta/2, and a loop ends in the pass that empties it.
C18_ActiveSetShrinks ==
    /\ [](\A n \in unconv : n[1] \in Tori /\ n[2] # 0 /\ n[2] < nta \div 2)
    /\ [][(Solving /\ Solving') => unconv' \subseteq unconv]_vars
    /\ [][(pc \in {"newton", "bisect"} /\ unconv' = {}) => pc' # pc]_vars

\* both loops have run and emptied an active set that held several nodes
C18_Witness ==
    /\ pc = "reflect" /\ iters.newton >= 1 /\ iters.bisect >= 1
    /\ unconv = {} /\ Cardinality(written) >= 2

\* C19: one pass of the Newton loop moves an active node of the table by at most
\* (rap - rperi)/nta and leaves it inside [rperi, rap], moves an active angle of
\* evaluate by at most 2 pi/101, and moves no node outside the active set.
C19_NewtonStepIsBounded ==
    /\ [][(pc = "newton") => \A i \in Tori : \A k \in Nodes :
            IF <<i, k>> \in unconv
              THEN /\ Abs(rgrid'[i][k] - rgrid[i][k]) <= maxdr(i)
                   /\ rperi[i] <= rgrid'[i][k] /\ rgrid'[i][k] <= rap[i]
              ELSE rgrid'[i][k] = rgrid[i][k]]_vars
    /\ [][\A t \in Threads : (frame[t].st = "newton") => \A n \in Idx(frame[t]) :
            IF n \in frame[t].unconv
              THEN Abs(frame'[t].anglera[n] - frame[t].anglera[n]) <= maxdar
              ELSE frame'[t].anglera[n] = frame[t].anglera[n]]_vars

\* the first Newton pass moved a node of the table by exactly the largest step
C19_Witness ==
    /\ iters.newton = 1 /\ iters.bisect = 0 /\ pc \in {"newton", "bisect_start", "reflect"}
    /\ \E n \in written :
          /\ maxdr(n[1]) > 0
          /\ Abs(rgrid[n[1]][n[2]] - initial_rgrid(n[1], n[2])) = maxdr(n[1])

Fitting == pc = "pointtransform" /\ use_pointtransform /\ pt_deg > 1

\* C20: with the point transformation on and degree pt_deg, the fit of every
\* torus, the first and each warm-started later one, hands opt_func exactly
\* pt_deg - 3 free coefficients, and the constructor gets past the fitter.
C20_FitterGetsFreeCoefficients ==
    /\ [](Fitting => \A ii \in Tori : ~UsesIdentity(ii) =>
             /\ Len(start_coeffs(ii, pt_deg)) = pt_deg - 3
             /\ ~opt_func_raises(start_coeffs(ii, pt_deg), pt_deg))
    /\ [][Fitting => pc' = "prescan"]_vars

\* opt_func, lines 426-442: the polynomial with P(0) = 0, P'(0) = 1, P(1) = 1,
\* P'(1) = 1 built from the free coefficients
constrained(coeffs, deg) ==
    LET c3 == 0 - SumSeq([k \in 1..Len(coeffs) |-> (k + 1) * coeffs[k]])
        c2 == 0 - SumSeq(coeffs) - c3
    IN [n \in 1..(deg + 1) |->
          IF n = 1 THEN 0 ELSE IF n = 2 THEN CoefScale
          ELSE IF n = 3 THEN c2 ELSE IF n = 4 THEN c3 ELSE coeffs[n - 4]]

\* the point transformation has been set up by _setup_pointtransform
Transformed == use_pointtransform /\ pt_deg > 1 /\ pt_coeffs # <<>>

\* C21: the coefficient vector stored for a fitted torus is the constrained
\* polynomial of the coefficients the least-squares fit returned for it.
C21_StoredTransformIsFitted ==
    Transformed => \A ii \in Tori :
        fit[ii] # <<>> => pt_coeffs[ii] = constrained(fit[ii], pt_deg)

\* C22: in every branch that sets up a transformation the stored derivative
\* vector is the derivative of the stored coefficient vector, and the stored
\* second-derivative vector is the derivative of the derivative vector.
C22_DerivativesAreConsistent ==
    pt_coeffs # <<>> => \A ii \in Tori :
        /\ pt_deriv_coeffs[ii] = polyder(pt_coeffs[ii])
        /\ pt_deriv2_coeffs[ii] = polyder(pt_deriv_coeffs[ii])

C24_NoNaNVelocity == \A i \in DOMAIN vrls : vrls[i] # NaN

\* C25: after construction no stored Fourier coefficient is nonzero and below
\* the noise floor in magnitude.
C25_NoiseIsZeroed ==
    Constructed => \A i \in Tori :
        dSndJr[i] = NaN \/ dSndJr[i] = 0 \/ Abs(dSndJr[i]) >= DSnFloor

\* the root-finder is about to start from the initial guess
AtInitialGuess == pc \in {"newton", "bisect_start"} /\ iters.newton = 0 /\ iters.bisect = 0

\* C26: the radius each solved node starts from is the pre-scan trial radius
\* at which the angle nearest to the node's target angle was evaluated, also
\* when the auxiliary turning points differ from the true ones.
C26_GuessIsPreScanRadius ==
    AtInitialGuess => \A i \in Tori : \A k \in Solved :
        rgrid[i][k] = rs(i, cindx(i, k))

\* C27: every per-torus table the constructor has set up holds one row for
\* each torus, in list mode and on a grid, with or without the point
\* transformation, and the constructor does not fail on the shape of a table.
C27_OneRowPerTorus ==
    /\ pt_coeffs # <<>> =>
          /\ Len(pt_coeffs) = Len(internal_Es)
          /\ Len(pt_deriv_coeffs) = Len(internal_Es)
          /\ Len(pt_deriv2_coeffs) = Len(internal_Es)
          /\ Len(pt_rperi) = Len(internal_Es) /\ Len(pt_rap) = Len(internal_Es)
    /\ rgrid # <<>> => Len(rgrid) = Len(internal_Es)
    /\ Constructed => /\ Len(internal_Es) = nE * (IF setup_interp THEN nL ELSE 1)
                      /\ Len(jr) = Len(internal_Es) /\ Len(Omegar) = Len(internal_Es)
                      /\ Len(Omegaz) = Len(internal_Es)
                      /\ Len(dSndJr) = Len(internal_Es)
    /\ err # "IndexError"

\* two finished evaluate calls for the same actions whose radial angles differ
\* by one full turn
TurnApart(t, u) ==
    /\ frame[t].st = "returned" /\ frame[t].fn = "evaluate"
    /\ frame[u].st = "returned" /\ frame[u].fn = "evaluate"
    /\ frame[t].q = frame[u].q
    /\ Len(frame[t].angler) = Len(frame[u].angler)
    /\ \A n \in 1..Len(frame[t].angler) : frame[u].angler[n] = frame[t].angler[n] + TwoPi

\* C28: evaluate is periodic in the radial angle: the auxiliary angles solved
\* for theta_r and for theta_r + 2 pi differ by a multiple of 2 pi and the two
\* solves take the same passes and give the same warnings.
C28_PeriodicInAngle ==
    \A t, u \in Threads : TurnApart(t, u) =>
        /\ \A n \in 1..Len(frame[t].angler) :
              (frame[u].anglera[n] - frame[t].anglera[n]) % TwoPi = 0
        /\ frame[t].iters = frame[u].iters
        /\ Len(frame[t].warnings) = Len(frame[u].warnings)
\* the entries of solvera the loop has set among indices 0..ntr/2
FirstHalf == 1..(IF Len(single.solvera) < (single.ntr \div 2) + 1
                 THEN Len(single.solvera) ELSE (single.ntr \div 2) + 1)
\* C29: in the single-torus engine the radii solved for indices 0..ntr/2 are
\* non-decreasing and lie in [rperi, rap], index 0 is rperi and index ntr/2 is
\* rap, with Brent and with use_newton; a Newton non-convergence at an
\* interior node, the one before ntr/2 included, falls back to Brent and the
\* construction still succeeds (it fails only for unmatched frequencies).
C29_SolvedRadiiAscend ==
    single.pc \in {"solve", "done", "failed"} =>
        /\ \A k \in FirstHalf :
              /\ single.rperi <= single.solvera[k] /\ single.solvera[k] <= single.rap
              /\ k = 1 => single.solvera[k] = single.rperi
              /\ k = (single.ntr \div 2) + 1 => single.solvera[k] = single.rap
              /\ k > 1 => single.solvera[k - 1] <= single.solvera[k]
        /\ single.pc = "failed" => single.err = "NotImplementedError"
\* the model_time and tgalpy the constructor arguments of the profile give
StartTime == IF IsQuantity(profile.t) THEN profile.t
             ELSE to_Gyr(profile.t.v, profile.ro, profile.vo)
StartGalpy == IF IsQuantity(profile.tgalpy_arg)
              THEN to_galpy(value_in_Myr(profile.tgalpy_arg), profile.ro, profile.vo)
              ELSE profile.tgalpy_arg.v
\* the time of the last evolve_model call, the start time if there was none
LastTime == IF profile.calls = <<>> THEN StartTime
            ELSE profile.calls[Len(profile.calls)]
\* C30: after any sequence of evolve_model calls model_time is the last time
\* passed and tgalpy is its initial value plus (minus when reverse is set)
\* the converted difference between the last time and the start time,
\* whatever the times in between; evolve_model(model_time) and the other
\* methods leave tgalpy as it is.
C30_GalpyTimeFollowsModelTime ==
    profile.st = "ready" =>
        LET total == to_galpy(value_in_Myr(LastTime) - value_in_Myr(StartTime),
                              profile.ro, profile.vo)
        IN  /\ profile.model_time = LastTime
            /\ profile.tgalpy = IF profile.reverse THEN StartGalpy - total
                                ELSE StartGalpy + total
\* two calls through a different intermediate time, in reverse, then a read
C30_Witness ==
    /\ profile.st = "ready" /\ profile.reverse
    /\ Len(profile.calls) = 2
    /\ value_in_Myr(profile.calls[1]) > value_in_Myr(profile.calls[2])
    /\ value_in_Myr(profile.calls[2]) # value_in_Myr(StartTime)
    /\ profile.calls[1].u # profile.calls[2].u
    /\ Len(profile.asked) = 3
====
